---------------------------- MODULE Spec2Model ----------------------------
(***************************************************************************)
(* Model of @semantq/storage: the MIME category table, the category        *)
(* expander and the file validator of utils.js; StorageService.upload and  *)
(* StorageService.process with the provider calls they make; the           *)
(* initialization of ModelFileService and its processFiles, deleteFiles,   *)
(* cleanupReplacedFiles and getUploadMiddleware; createUploadMiddleware;   *)
(* update of the storage-integrated service.                               *)
(*                                                                         *)
(* JavaScript strings are modelled as sequences of tokens.  The two        *)
(* characters the code inspects, '/' and '*', are tokens of their own;     *)
(* every maximal run of other characters is one token ("image", "png",     *)
(* "svg+xml").  'image/*' is <<"image", "/", "*">>.  On such sequences     *)
(* includes, split, startsWith and endsWith with patterns made of '/' and  *)
(* '*' are computed as JavaScript computes them on the characters.         *)
(***************************************************************************)
EXTENDS Integers, Sequences, FiniteSets, TLC

VARIABLES
    ecInput,     \* expandCategories: the argument `categories`
    ecResult,    \* expandCategories: the returned array, or NotCalled
    vfFile,      \* validateFile: the argument `file` (mimetype, size)
    vfCons,      \* validateFile: the argument `constraints`
    vfResult,    \* validateFile: what the call did (true or the error thrown)
    vfPrev,      \* what the previous validateFile call on the same file did
    vfOp,        \* the caller's last step
    upFiles,     \* StorageService.upload: fileArray
    upIsArray,   \* StorageService.upload: Array.isArray(files)
    upOptions,   \* StorageService.upload: options (allowedTypes)
    upMaxFileSize, \* StorageService: this.config.maxFileSize
    upPc,        \* StorageService.upload: position of the async function
    upCalls,     \* provider.upload calls issued so far: the index in fileArray
                 \* of the file handed over, in call order
    upSettled,   \* per provider.upload call: "pending", "fulfilled", "rejected"
    upOrder,     \* the provider.upload calls fulfilled so far, in the order in
                 \* which their promises were fulfilled
    upOutcome,   \* what the promise returned by upload settled to
    upDeletes,   \* provider.delete calls issued so far
    prFields,    \* StorageService.process: Object.entries(fileFields)
    prOptions,   \* StorageService.process: options (folder, allowedTypes)
    prPc,        \* StorageService.process: position of the async function
    prUploads,   \* the this.upload calls made by process, in call order, each
                 \* with the state of its own run of upload
    prResults,   \* StorageService.process: the object `results`
    prOutcome,   \* what the promise returned by process settled to
    mfHost,      \* ModelFileService: the names among info, warning and
                 \* StorageConfig.resolveFolderPath that the running program
                 \* supplies to ModelFileService.js
    mfCreateOk,  \* whether createStorage accepts the loaded configuration
    mfFields,    \* Object.entries(this.modelFileConfig.fileFields)
    mfInit,      \* this._initPromise: "loading", "fulfilled" or "rejected"
    mfStorage,   \* this.storage
    mfRuns,      \* number of runs of _initializeStorage started so far
    mfLoads,     \* number of StorageConfig.load calls so far
    mfCreates,   \* number of createStorage calls so far
    mfCalls,     \* the calls of processFiles, deleteFiles and
                 \* cleanupReplacedFiles made on the instance, each with its
                 \* position
    pfRequest,   \* processFiles: req.uploadedFiles, per field name
    pfPc,        \* processFiles: position of the async function
    pfField,     \* processFiles: position in fileFields of the field whose
                 \* upload is awaited
    pfResults,   \* processFiles: the object `results`
    pfUploads,   \* processFiles: the storage.upload calls that have settled,
                 \* each with the provider.upload calls it made
    pfOutcome,   \* what the promise returned by processFiles settled to
    dfRecord,    \* deleteFiles: record; cleanupReplacedFiles: existingRecord
    dfNew,       \* cleanupReplacedFiles: newFileUrls
    dfPc,        \* position of deleteFiles or cleanupReplacedFiles
    dfDeletes,   \* the storage.delete calls issued, in call order, each with
                 \* the state of its promise
    dfOutcome,   \* what the promise returned by the call settled to
    mwResult,    \* getUploadMiddleware: what the call did
    suPersisted, \* the record the base service holds under id
    suData,      \* update: data
    suHasReq,    \* update: whether req is given
    suExisting,  \* update: existing
    suFileUrls,  \* update: fileUrls
    suPc,        \* update: position of the async function
    suOutcome    \* what the promise returned by update settled to

vars == <<ecInput, ecResult, vfFile, vfCons, vfResult, vfPrev, vfOp, upFiles, upIsArray,
          upOptions, upMaxFileSize, upPc, upCalls, upSettled, upOrder, upOutcome,
          upDeletes, prFields, prOptions, prPc, prUploads, prResults, prOutcome,
          mfHost, mfCreateOk, mfFields, mfInit, mfStorage, mfRuns, mfLoads,
          mfCreates, mfCalls, pfRequest, pfPc, pfField, pfResults, pfUploads,
          pfOutcome, dfRecord, dfNew, dfPc, dfDeletes, dfOutcome, mwResult,
          suPersisted, suData, suHasReq, suExisting, suFileUrls, suPc, suOutcome>>

ecVars == <<ecInput, ecResult>>
vfVars == <<vfFile, vfCons, vfResult, vfPrev, vfOp>>
upVars == <<upFiles, upIsArray, upOptions, upMaxFileSize, upPc, upCalls,
            upSettled, upOrder, upOutcome, upDeletes>>
prVars == <<prFields, prOptions, prPc, prUploads, prResults, prOutcome>>
mfVars == <<mfHost, mfCreateOk, mfFields, mfInit, mfStorage, mfRuns, mfLoads,
            mfCreates, mfCalls>>
pfVars == <<pfRequest, pfPc, pfField, pfResults, pfUploads, pfOutcome>>
dfVars == <<dfRecord, dfNew, dfPc, dfDeletes, dfOutcome>>
mwVars == <<mwResult>>
suVars == <<suPersisted, suData, suHasReq, suExisting, suFileUrls, suPc, suOutcome>>

NotCalled == "not-called"
Undefined == "undefined"

-----------------------------------------------------------------------------
(* JavaScript string operations on token sequences *)

Mime(type, subtype) == <<type, "/", subtype>>

SeqToSet(s) == {s[i] : i \in 1..Len(s)}

\* String.prototype.startsWith
StartsWith(s, p) == Len(p) <= Len(s) /\ SubSeq(s, 1, Len(p)) = p

\* String.prototype.endsWith
EndsWith(s, p) == Len(p) <= Len(s) /\ SubSeq(s, Len(s) - Len(p) + 1, Len(s)) = p

\* the positions at which pattern p occurs in s
Occurrences(s, p) ==
    {i \in 1..(Len(s) - Len(p) + 1) : SubSeq(s, i, i + Len(p) - 1) = p}

\* String.prototype.includes
Includes(s, p) == Occurrences(s, p) # {}

Min(S) == CHOOSE x \in S : \A y \in S : x <= y

\* s.split(p)[0]: the part of s before the first occurrence of p, s itself
\* when p does not occur
SplitFirst(s, p) ==
    IF Includes(s, p) THEN SubSeq(s, 1, Min(Occurrences(s, p)) - 1) ELSE s

-----------------------------------------------------------------------------
(* utils.js: MIME_CATEGORIES, in the key order of the object literal *)

MIME_CATEGORIES == <<
    [name |-> "image", types |-> <<
        Mime("image", "jpeg"), Mime("image", "png"), Mime("image", "webp"),
        Mime("image", "gif"), Mime("image", "svg+xml"), Mime("image", "bmp"),
        Mime("image", "tiff")>>],
    [name |-> "audio", types |-> <<
        Mime("audio", "mpeg"), Mime("audio", "wav"), Mime("audio", "ogg"),
        Mime("audio", "midi"), Mime("audio", "x-wav"), Mime("audio", "x-m4a")>>],
    [name |-> "video", types |-> <<
        Mime("video", "mp4"), Mime("video", "webm"), Mime("video", "ogg"),
        Mime("video", "quicktime"), Mime("video", "x-msvideo"),
        Mime("video", "x-matroska")>>],
    [name |-> "document", types |-> <<
        Mime("application", "pdf"), Mime("application", "msword"),
        Mime("application", "vnd.openxmlformats-officedocument.wordprocessingml.document"),
        Mime("application", "rtf"), Mime("text", "plain")>>],
    [name |-> "spreadsheet", types |-> <<
        Mime("application", "vnd.ms-excel"),
        Mime("application", "vnd.openxmlformats-officedocument.spreadsheetml.sheet"),
        Mime("application", "vnd.oasis.opendocument.spreadsheet"),
        Mime("text", "csv")>>],
    [name |-> "presentation", types |-> <<
        Mime("application", "vnd.ms-powerpoint"),
        Mime("application", "vnd.openxmlformats-officedocument.presentationml.presentation"),
        Mime("application", "vnd.oasis.opendocument.presentation")>>],
    [name |-> "archive", types |-> <<
        Mime("application", "zip"), Mime("application", "x-rar-compressed"),
        Mime("application", "x-tar"), Mime("application", "gzip"),
        Mime("application", "x-7z-compressed")>>],
    [name |-> "code", types |-> <<
        Mime("text", "javascript"), Mime("application", "javascript"),
        Mime("text", "x-python"), Mime("text", "x-java-source"),
        Mime("text", "x-c"), Mime("text", "x-c++"), Mime("text", "x-php"),
        Mime("application", "json"), Mime("application", "xml"),
        Mime("text", "html"), Mime("text", "css")>>]
>>

\* the keys of MIME_CATEGORIES, as strings
CategoryNames == {<<MIME_CATEGORIES[i].name>> : i \in 1..Len(MIME_CATEGORIES)}

\* MIME_CATEGORIES[category] is truthy: category is an own key of the table
\* (the category strings considered are no names of Object.prototype members)
HasCategory(category) == category \in CategoryNames

\* MIME_CATEGORIES[category], for a key of the table
CategoryTypes(category) ==
    LET i == CHOOSE j \in 1..Len(MIME_CATEGORIES) :
                 <<MIME_CATEGORIES[j].name>> = category
    IN  MIME_CATEGORIES[i].types

RECURSIVE Flatten(_)
Flatten(ss) == IF ss = <<>> THEN <<>> ELSE Head(ss) \o Flatten(Tail(ss))

\* Object.values(MIME_CATEGORIES) visited category by category, type by type
ObjectValuesTypes ==
    Flatten([i \in 1..Len(MIME_CATEGORIES) |-> MIME_CATEGORIES[i].types])

-----------------------------------------------------------------------------
(* utils.js: expandCategories *)

\* Set.prototype.add on a Set kept in insertion order: a value already in the
\* Set is not added again
SetAdd(set, x) == IF x \in SeqToSet(set) THEN set ELSE Append(set, x)

\* faulty variant: a plain array, every type is pushed
AddEachDup(set, types) == set \o types
\* types.forEach(type => mimeTypes.add(type)): the types that are new to the
\* Set are appended in the order of their first occurrence
AddEach(set, types) ==
    LET present == SeqToSet(set)
        positions == [i \in 1..Len(types) |-> i]
        fresh == SelectSeq(positions,
                           LAMBDA i : /\ types[i] \notin present
                                      /\ \A j \in 1..(i - 1) : types[j] # types[i])
    IN  set \o [k \in 1..Len(fresh) |-> types[fresh[k]]]

\* faulty variant: no branch for the literal '*'
ExpandOneNoStar(mimeTypes, category) ==
    IF HasCategory(category) THEN
        AddEach(mimeTypes, CategoryTypes(category))
    ELSE IF Includes(category, <<"/", "*">>) THEN
        LET prefix == SplitFirst(category, <<"/", "*">>)
        IN  AddEach(mimeTypes,
                    SelectSeq(ObjectValuesTypes,
                              LAMBDA type : StartsWith(type, prefix \o <<"/">>)))
    ELSE
        SetAdd(mimeTypes, category)
\* faulty variant: no branch for wildcard patterns
ExpandOneNoWildcard(mimeTypes, category) ==
    IF category = <<"*">> THEN
        AddEach(mimeTypes, ObjectValuesTypes)
    ELSE IF HasCategory(category) THEN
        AddEach(mimeTypes, CategoryTypes(category))
    ELSE
        SetAdd(mimeTypes, category)
\* the body of the categories.forEach callback, lines 59-81
ExpandOne(mimeTypes, category) ==
    IF category = <<"*">> THEN
        AddEach(mimeTypes, ObjectValuesTypes)
    ELSE IF HasCategory(category) THEN
        AddEach(mimeTypes, CategoryTypes(category))
    ELSE IF Includes(category, <<"/", "*">>) THEN
        LET prefix == SplitFirst(category, <<"/", "*">>)
        IN  AddEach(mimeTypes,
                    SelectSeq(ObjectValuesTypes,
                              LAMBDA type : StartsWith(type, prefix \o <<"/">>)))
    ELSE
        SetAdd(mimeTypes, category)

RECURSIVE ExpandFrom(_, _)
ExpandFrom(mimeTypes, categories) ==
    IF categories = <<>> THEN mimeTypes
    ELSE ExpandFrom(ExpandOne(mimeTypes, Head(categories)), Tail(categories))

\* expandCategories(categories): Array.from(mimeTypes)
expandCategories(categories) == ExpandFrom(<<>>, categories)

-----------------------------------------------------------------------------
(* utils.js: validateFile *)

\* faulty variant: wildcard entries are compared verbatim
TypeMatchesExactOnly(mimetype, type) == mimetype = type
\* the callback of disallowedTypes.some and of allowedMimeTypes.some,
\* lines 122-129 and 150-157
TypeMatches(mimetype, type) ==
    IF type = <<"*", "/", "*">> THEN TRUE
    ELSE IF EndsWith(type, <<"/", "*">>) THEN
        LET category == SplitFirst(type, <<"/">>)
        IN  StartsWith(mimetype, category \o <<"/">>)
    ELSE mimetype = type

\* disallowedTypes.some(...) and allowedMimeTypes.some(...), lines 122 and 150
SomeMatches(mimetype, types) ==
    \E i \in 1..Len(types) : TypeMatches(mimetype, types[i])

\* line 100 calls parseSize, an identifier that utils.js neither declares nor
\* imports: evaluating the call throws a ReferenceError
ReferenceError == "ReferenceError: parseSize is not defined"
parseSize(maxSize) == ReferenceError

\* faulty variant: explicit allowedTypes replace the categories instead of
\* being merged with them
AllowedMimeTypesTypesOverride(constraints) ==
    IF Len(constraints.allowedTypes) > 0
    THEN constraints.allowedTypes
    ELSE expandCategories(constraints.allowedCategories)
\* lines 106-113: allowedMimeTypes
AllowedMimeTypes(constraints) ==
    constraints.allowedTypes \o
        (IF Len(constraints.allowedCategories) > 0
         THEN expandCategories(constraints.allowedCategories)
         ELSE <<>>)

\* lines 148-164: the allowed-types check and the final return true
CheckAllowed(file, allowedMimeTypes) ==
    IF Len(allowedMimeTypes) > 0
       /\ ~ SomeMatches(file.mimetype, allowedMimeTypes)
    THEN "TypeNotAllowed"
    ELSE "ok"

\* lines 136-146: the disallowed-categories check
CheckDisallowedCategories(file, constraints, allowedMimeTypes) ==
    IF Len(constraints.disallowedCategories) > 0
       /\ file.mimetype \in SeqToSet(expandCategories(constraints.disallowedCategories))
    THEN "CategoryDisallowed"
    ELSE CheckAllowed(file, allowedMimeTypes)

\* faulty variant: a type the allow-list matches is not rejected
CheckDisallowedTypesAllowWins(file, constraints, allowedMimeTypes) ==
    IF Len(constraints.disallowedTypes) > 0
       /\ SomeMatches(file.mimetype, constraints.disallowedTypes)
       /\ ~ SomeMatches(file.mimetype, allowedMimeTypes)
    THEN "TypeDisallowed"
    ELSE CheckDisallowedCategories(file, constraints, allowedMimeTypes)
\* faulty variant: returns true when no disallowedTypes entry matches,
\* skipping the checks that follow
CheckDisallowedTypesReturnsEarly(file, constraints, allowedMimeTypes) ==
    IF Len(constraints.disallowedTypes) > 0
    THEN IF SomeMatches(file.mimetype, constraints.disallowedTypes)
         THEN "TypeDisallowed"
         ELSE "ok"
    ELSE CheckDisallowedCategories(file, constraints, allowedMimeTypes)
\* lines 120-134: the disallowed-types check
CheckDisallowedTypes(file, constraints, allowedMimeTypes) ==
    IF Len(constraints.disallowedTypes) > 0
       /\ SomeMatches(file.mimetype, constraints.disallowedTypes)
    THEN "TypeDisallowed"
    ELSE CheckDisallowedCategories(file, constraints, allowedMimeTypes)

\* lines 115-118: "If no restrictions, allow everything"
CheckTypes(file, constraints) ==
    LET allowedMimeTypes == AllowedMimeTypes(constraints)
    IN  IF Len(allowedMimeTypes) = 0 /\ Len(constraints.disallowedTypes) = 0
        THEN "ok"
        ELSE CheckDisallowedTypes(file, constraints, allowedMimeTypes)

\* lines 98-104, then the rest of validateFile.  The value is "ok" when the
\* call returns true and names the error thrown otherwise.
validateFile(file, constraints) ==
    IF constraints.maxSize # Undefined THEN
        LET maxBytes == parseSize(constraints.maxSize)
        IN  IF maxBytes = ReferenceError THEN ReferenceError
            ELSE IF file.size > maxBytes THEN "SizeExceeded"
            ELSE CheckTypes(file, constraints)
    ELSE CheckTypes(file, constraints)

-----------------------------------------------------------------------------
(* providers/cloudinary.js (StorageService): constructor, _validateFile *)

\* constructor, line 55: maxFileSize: 50 * 1024 * 1024, unless config overrides it
DefaultMaxFileSize == 50 * 1024 * 1024

\* _validateFile, lines 173-178: the callback of options.allowedTypes.some
ServiceTypeMatches(mimetype, type) ==
    IF EndsWith(type, <<"/", "*">>)
    THEN StartsWith(mimetype, SplitFirst(type, <<"/">>) \o <<"/">>)
    ELSE mimetype = type

\* _validateFile(file, options), lines 165-186: "ok" when it returns true,
\* the error it throws otherwise
StorageServiceValidateFile(file, options, maxFileSize) ==
    IF file.size > maxFileSize THEN "FileTooLarge"
    ELSE IF Len(options.allowedTypes) > 0
            /\ ~ \E i \in 1..Len(options.allowedTypes) :
                    ServiceTypeMatches(file.mimetype, options.allowedTypes[i])
    THEN "InvalidFileType"
    ELSE "ok"

\* faulty variant: only the first file is validated
FirstInvalidChecksFirstOnly(files, options, maxFileSize) ==
    IF Len(files) > 0 /\ StorageServiceValidateFile(files[1], options, maxFileSize) # "ok"
    THEN 1 ELSE 0
\* upload, lines 82-85: fileArray.map(file => this._validateFile(file, options))
\* stops at the first file whose validation throws; 0 when none throws
FirstInvalid(files, options, maxFileSize) ==
    LET bad == {i \in 1..Len(files) :
                   StorageServiceValidateFile(files[i], options, maxFileSize) # "ok"}
    IN  IF bad = {} THEN 0 ELSE Min(bad)

\* provider.upload(file, options) fulfilled: the record it returns for the file
\* at index i of fileArray
ProviderResult(files, i) ==
    [file |-> i, type |-> files[i].mimetype, size |-> files[i].size]

-----------------------------------------------------------------------------
(* Bounds and input domains *)

MaxCategories == 2      \* longest list handed to expandCategories
MaxEntries == 1         \* longest list in a field of a constraint set
MaxFiles == 2           \* most files handed to one StorageService.upload call

SeqsUpTo(S, n) == UNION {[1..k -> S] : k \in 0..n}

\* entries of a category list: a bare word or '*', or type/subtype where each
\* side is a word or '*'
ExpandTokens == {"image", "text", "png", "foo", "*"}
ExpandEntries ==
    {<<t>> : t \in ExpandTokens}
        \cup {Mime(t1, t2) : t1 \in ExpandTokens, t2 \in ExpandTokens}

FileMimeTypes == {Mime("image", "gif"), Mime("image", "png"), Mime("video", "mp4")}
TypeEntries == {Mime("image", "gif"), Mime("image", "*"), Mime("*", "*")}
CategoryEntries == {<<"image">>, Mime("video", "*")}
\* (maxSize, file.size): '1KB' is 1024 bytes
SizeCases == {<<Undefined, 100>>, <<Undefined, 2000>>, <<"1KB", 100>>, <<"1KB", 2000>>}

upIdle ==
    /\ upFiles = <<>> /\ upIsArray = FALSE /\ upOptions = [allowedTypes |-> <<>>]
    /\ upMaxFileSize = DefaultMaxFileSize /\ upPc = "idle" /\ upCalls = <<>>
    /\ upSettled = <<>> /\ upOrder = <<>>
    /\ upOutcome = NotCalled /\ upDeletes = <<>>
prIdle ==
    /\ prFields = <<>> /\ prOptions = [folder |-> Undefined, allowedTypes |-> <<>>]
    /\ prPc = "idle" /\ prUploads = <<>> /\ prResults = <<>> /\ prOutcome = NotCalled
mfIdle ==
    /\ mfHost = {} /\ mfCreateOk = TRUE /\ mfFields = <<>> /\ mfInit = "idle"
    /\ mfStorage = "null" /\ mfRuns = 0 /\ mfLoads = 0 /\ mfCreates = 0
    /\ mfCalls = <<>>
pfIdle ==
    /\ pfRequest = <<>> /\ pfPc = "idle" /\ pfField = 0 /\ pfResults = <<>>
    /\ pfUploads = <<>> /\ pfOutcome = NotCalled
dfIdle ==
    /\ dfRecord = <<>> /\ dfNew = <<>> /\ dfPc = "idle" /\ dfDeletes = <<>>
    /\ dfOutcome = NotCalled
mwIdle == mwResult = [kind |-> NotCalled]
suIdle ==
    /\ suPersisted = <<>> /\ suData = <<>> /\ suHasReq = FALSE /\ suExisting = <<>>
    /\ suFileUrls = <<>> /\ suPc = "idle" /\ suOutcome = NotCalled
vfIdle ==
    /\ vfFile = [mimetype |-> <<>>, size |-> 0]
    /\ vfCons = [maxSize |-> Undefined, allowedTypes |-> <<>>, disallowedTypes |-> <<>>,
                 allowedCategories |-> <<>>, disallowedCategories |-> <<>>]
    /\ vfResult = NotCalled /\ vfPrev = NotCalled /\ vfOp = "none"
ecIdle == ecInput = <<>> /\ ecResult = NotCalled

-----------------------------------------------------------------------------
(* SpecExpand: expandCategories applied to every bounded category list *)

InitExpand ==
    /\ ecInput \in SeqsUpTo(ExpandEntries, MaxCategories)
    /\ ecResult = NotCalled
    /\ vfIdle /\ upIdle /\ prIdle /\ mfIdle /\ pfIdle /\ dfIdle /\ mwIdle /\ suIdle

ExpandCall ==
    /\ ecResult = NotCalled
    /\ ecResult' = expandCategories(ecInput)
    /\ UNCHANGED <<ecInput, vfVars, upVars, prVars, mfVars, pfVars, dfVars, mwVars, suVars>>

NextExpand == ExpandCall

SpecExpand == InitExpand /\ [][NextExpand]_vars

-----------------------------------------------------------------------------
(* SpecValidate: validateFile applied to every bounded file and constraint   *)
(* set; the caller may then add one entry to allowedTypes or to             *)
(* disallowedTypes and validate the same file again                         *)

InitValidate ==
    /\ \E sc \in SizeCases, m \in FileMimeTypes :
          /\ vfFile = [mimetype |-> m, size |-> sc[2]]
          /\ \E at \in SeqsUpTo(TypeEntries, MaxEntries),
                dt \in SeqsUpTo(TypeEntries, MaxEntries),
                ac \in SeqsUpTo(CategoryEntries, MaxEntries),
                dc \in SeqsUpTo(CategoryEntries, MaxEntries) :
                vfCons = [maxSize |-> sc[1], allowedTypes |-> at,
                          disallowedTypes |-> dt, allowedCategories |-> ac,
                          disallowedCategories |-> dc]
    /\ vfResult = NotCalled /\ vfPrev = NotCalled /\ vfOp = "none"
    /\ ecIdle /\ upIdle /\ prIdle /\ mfIdle /\ pfIdle /\ dfIdle /\ mwIdle /\ suIdle

ValidateCall ==
    /\ vfResult = NotCalled
    /\ vfResult' = validateFile(vfFile, vfCons)
    /\ vfOp' = "validate"
    /\ UNCHANGED <<vfFile, vfCons, vfPrev, ecVars, upVars, prVars, mfVars, pfVars, dfVars, mwVars, suVars>>

AddDisallowedType(entry) ==
    /\ vfOp = "validate"
    /\ Len(vfCons.disallowedTypes) < MaxEntries
    /\ vfCons' = [vfCons EXCEPT !.disallowedTypes = Append(@, entry)]
    /\ vfPrev' = vfResult
    /\ vfResult' = validateFile(vfFile, vfCons')
    /\ vfOp' = "addDisallowedType"
    /\ UNCHANGED <<vfFile, ecVars, upVars, prVars, mfVars, pfVars, dfVars, mwVars, suVars>>

AddAllowedType(entry) ==
    /\ vfOp = "validate"
    /\ Len(vfCons.allowedTypes) < MaxEntries
    /\ vfCons' = [vfCons EXCEPT !.allowedTypes = Append(@, entry)]
    /\ vfPrev' = vfResult
    /\ vfResult' = validateFile(vfFile, vfCons')
    /\ vfOp' = "addAllowedType"
    /\ UNCHANGED <<vfFile, ecVars, upVars, prVars, mfVars, pfVars, dfVars, mwVars, suVars>>

NextValidate ==
    \/ ValidateCall
    \/ \E entry \in TypeEntries : AddDisallowedType(entry)
    \/ \E entry \in TypeEntries : AddAllowedType(entry)

SpecValidate == InitValidate /\ [][NextValidate]_vars

-----------------------------------------------------------------------------
(* SpecUpload: one call of StorageService.upload(files, options) and the    *)
(* provider calls it makes.  An async function runs without interruption up *)
(* to each await; the provider's promises are settled by the environment.   *)

UploadFileSizes == {100, 2000}
UploadMimeTypes == {Mime("image", "gif"), Mime("video", "mp4")}
UploadFiles == [mimetype : UploadMimeTypes, size : UploadFileSizes]
\* this.config.maxFileSize: the default, or a value given to the constructor
ConfigMaxFileSizes == {DefaultMaxFileSize, 1024}

InitUpload ==
    /\ \/ upIsArray = TRUE /\ upFiles \in SeqsUpTo(UploadFiles, MaxFiles)
       \/ upIsArray = FALSE /\ upFiles \in [1..1 -> UploadFiles]
    /\ upOptions \in [allowedTypes : SeqsUpTo(TypeEntries, MaxEntries)]
    /\ upMaxFileSize \in ConfigMaxFileSizes
    /\ upPc = "start"
    /\ upCalls = <<>> /\ upSettled = <<>> /\ upOrder = <<>>
    /\ upOutcome = NotCalled
    /\ upDeletes = <<>>
    /\ ecIdle /\ vfIdle /\ prIdle /\ mfIdle /\ pfIdle /\ dfIdle /\ mwIdle /\ suIdle

\* lines 78-85: every file is validated; a throw inside map rejects the call
UploadValidate ==
    /\ upPc = "start"
    /\ LET bad == FirstInvalid(upFiles, upOptions, upMaxFileSize)
       IN  IF bad # 0
           THEN /\ upPc' = "rejected"
                /\ upOutcome' = [kind |-> "error",
                                 error |-> StorageServiceValidateFile(
                                               upFiles[bad], upOptions, upMaxFileSize)]
           ELSE /\ upPc' = "validated"
                /\ UNCHANGED upOutcome
    /\ UNCHANGED <<upFiles, upIsArray, upOptions, upMaxFileSize, upCalls,
                   upSettled, upOrder, upDeletes, ecVars, vfVars, prVars, mfVars, pfVars, dfVars, mwVars, suVars>>

\* faulty variant: only the first file is handed to the provider before the
\* call waits
DispatchedFirstOnly(files) == [i \in 1..Min({1, Len(files)}) |-> i]
\* lines 88-90: fileArray.map(file => this.provider.upload(file, options)) calls
\* the provider once per file, in order, before Promise.all is awaited
Dispatched(files) == [i \in 1..Len(files) |-> i]

UploadDispatch ==
    /\ upPc = "validated"
    /\ upCalls' = Dispatched(upFiles)
    /\ upSettled' = [i \in 1..Len(upCalls') |-> "pending"]
    /\ IF Len(upFiles) = 0
       THEN /\ upPc' = "resolved"
            /\ upOutcome' = [kind |-> "value", value |-> <<>>]
       ELSE /\ upPc' = "uploading"
            /\ UNCHANGED upOutcome
    /\ UNCHANGED <<upFiles, upIsArray, upOptions, upMaxFileSize, upOrder, upDeletes,
                   ecVars, vfVars, prVars, mfVars, pfVars, dfVars, mwVars, suVars>>

\* faulty variant: the values are collected in the order of completion
PromiseAllValuesByCompletion(files, calls, order) ==
    [j \in 1..Len(order) |-> ProviderResult(files, calls[order[j]])]
\* line 90: Promise.all is fulfilled with the values of the promises at the
\* positions of the promises, whatever the order in which they were fulfilled
PromiseAllValues(files, calls, order) ==
    [j \in 1..Len(calls) |-> ProviderResult(files, calls[j])]

\* the promise of provider call k is fulfilled; when it was the last one
\* pending and none was rejected, Promise.all is fulfilled and upload returns
\* (line 92)
ProviderFulfil(k) ==
    /\ k \in DOMAIN upSettled /\ upSettled[k] = "pending"
    /\ upSettled' = [upSettled EXCEPT ![k] = "fulfilled"]
    /\ upOrder' = Append(upOrder, k)
    /\ IF upPc = "uploading" /\ \A j \in DOMAIN upSettled' : upSettled'[j] = "fulfilled"
       THEN LET uploads == PromiseAllValues(upFiles, upCalls, upOrder')
            IN  /\ upPc' = "resolved"
                /\ upOutcome' = [kind |-> "value",
                                 value |-> IF upIsArray THEN uploads ELSE uploads[1]]
       ELSE UNCHANGED <<upPc, upOutcome>>
    /\ UNCHANGED <<upFiles, upIsArray, upOptions, upMaxFileSize, upCalls,
                   upDeletes, ecVars, vfVars, prVars, mfVars, pfVars, dfVars, mwVars, suVars>>

\* the promise of provider call k is rejected; the first rejection rejects
\* Promise.all and with it the call
ProviderReject(k) ==
    /\ k \in DOMAIN upSettled /\ upSettled[k] = "pending"
    /\ upSettled' = [upSettled EXCEPT ![k] = "rejected"]
    /\ IF upPc = "uploading"
       THEN /\ upPc' = "rejected"
            /\ upOutcome' = [kind |-> "error", error |-> "UploadFailed"]
       ELSE UNCHANGED <<upPc, upOutcome>>
    /\ UNCHANGED <<upFiles, upIsArray, upOptions, upMaxFileSize, upCalls,
                   upOrder, upDeletes, ecVars, vfVars, prVars, mfVars, pfVars, dfVars, mwVars, suVars>>

NextUpload ==
    \/ UploadValidate
    \/ UploadDispatch
    \/ \E k \in 1..(MaxFiles + 1) : ProviderFulfil(k)
    \/ \E k \in 1..(MaxFiles + 1) : ProviderReject(k)

SpecUpload == InitUpload /\ [][NextUpload]_vars

-----------------------------------------------------------------------------
(* SpecProcess: one call of StorageService.process(fileFields, options).    *)
(* The value of a field is absent (undefined or null), an array of files,   *)
(* or a single file; each this.upload call made by process is a run of      *)
(* upload of its own.                                                       *)

MaxFields == 2          \* most fields of the object handed to process

FieldNames == <<"mainImage", "galleryImages", "documents">>

ProcessFile1 == [mimetype |-> Mime("image", "gif"), size |-> 100]
ProcessFile2 == [mimetype |-> Mime("video", "mp4"), size |-> 100]
ProcessFile3 == [mimetype |-> Mime("image", "png"), size |-> 100]
FieldValues ==
    {[kind |-> "absent", files |-> <<>>],
     [kind |-> "array", files |-> <<>>],
     [kind |-> "array", files |-> <<ProcessFile1>>],
     [kind |-> "array", files |-> <<ProcessFile1, ProcessFile2>>],
     [kind |-> "single", files |-> <<ProcessFile2>>]}
ProcessFolders == {Undefined, "products"}

\* line 114: !files || files.length === 0
Skipped(value) ==
    value.kind = "absent" \/ (value.kind = "array" /\ Len(value.files) = 0)

\* lines 116-119: folder: options.folder ? `${options.folder}/${fieldName}` : fieldName
FieldFolder(options, fieldName) ==
    IF options.folder # Undefined
    THEN <<options.folder, "/", fieldName>>
    ELSE <<fieldName>>

\* lines 121-126: this.upload(files, fieldOptions) runs upload up to its first
\* await (cloudinary.js 78-85): the files are validated
UploadRun(entry, options) ==
    LET bad == FirstInvalid(entry.value.files, options, DefaultMaxFileSize)
    IN  [field |-> entry.name,
         folder |-> FieldFolder(options, entry.name),
         files |-> entry.value.files,
         isArray |-> entry.value.kind = "array",
         pc |-> IF bad # 0 THEN "rejected" ELSE "validated",
         settled |-> <<>>,
         order |-> <<>>]

\* faulty variant: the loop stops at the first field whose upload is rejected
UploadRunsUntilRejected(fields, options) ==
    LET kept == SelectSeq(fields, LAMBDA e : ~ Skipped(e.value))
        runs == [i \in 1..Len(kept) |-> UploadRun(kept[i], options)]
        bad == {i \in 1..Len(runs) : runs[i].pc = "rejected"}
    IN  IF bad = {} THEN runs ELSE SubSeq(runs, 1, Min(bad))
\* lines 113-127: the loop over Object.entries(fileFields)
UploadRuns(fields, options) ==
    LET kept == SelectSeq(fields, LAMBDA e : ~ Skipped(e.value))
    IN  [i \in 1..Len(kept) |-> UploadRun(kept[i], options)]

\* line 129: Promise.all(uploadPromises) as seen by process
Joined(uploads) ==
    IF \E f \in 1..Len(uploads) : uploads[f].pc = "rejected" THEN "rejected"
    ELSE IF \A f \in 1..Len(uploads) : uploads[f].pc = "resolved" THEN "resolved"
    ELSE "awaiting"

\* what upload run u returned (cloudinary.js 92)
UploadValue(u) ==
    LET uploads == PromiseAllValues(u.files, Dispatched(u.files), u.order)
    IN  IF u.isArray THEN uploads ELSE uploads[1]

\* lines 123-125: results[fieldName] = uploadResults for every upload that
\* has returned
ResultsOf(uploads) ==
    LET done == {f \in 1..Len(uploads) : uploads[f].pc = "resolved"}
    IN  [n \in {uploads[f].field : f \in done} |->
            UploadValue(uploads[CHOOSE f \in done : uploads[f].field = n])]

InitProcess ==
    /\ \E n \in 0..MaxFields :
          \E values \in [1..n -> FieldValues] :
             prFields = [i \in 1..n |-> [name |-> FieldNames[i], value |-> values[i]]]
    /\ prOptions \in [folder : ProcessFolders,
                      allowedTypes : {<<>>, <<Mime("image", "*")>>}]
    /\ prPc = "start"
    /\ prUploads = <<>> /\ prResults = <<>> /\ prOutcome = NotCalled
    /\ ecIdle /\ vfIdle /\ upIdle /\ mfIdle /\ pfIdle /\ dfIdle /\ mwIdle /\ suIdle

\* the promise of process settles when Promise.all does (lines 129-130):
\* rejected with the first upload that is rejected, fulfilled with `results`
\* once every upload has returned
ProcessJoin ==
    /\ prResults' = ResultsOf(prUploads')
    /\ IF prPc \in {"start", "awaiting"}
       THEN LET j == Joined(prUploads')
            IN  /\ prPc' = j
                /\ prOutcome' = IF j = "resolved"
                                  THEN [kind |-> "value", value |-> prResults']
                                ELSE IF j = "rejected"
                                  THEN [kind |-> "error"]
                                ELSE NotCalled
       ELSE UNCHANGED <<prPc, prOutcome>>

\* lines 110-129: the loop calls this.upload for every field that is not
\* skipped, then process waits for all of them
ProcessCall ==
    /\ prPc = "start"
    /\ prUploads' = UploadRuns(prFields, prOptions)
    /\ ProcessJoin
    /\ UNCHANGED <<prFields, prOptions, ecVars, vfVars, upVars, mfVars, pfVars,
                   dfVars, mwVars, suVars>>

\* upload run f goes on after its validation (cloudinary.js 88-90): the
\* provider is called once per file with the field's options
FieldDispatch(f) ==
    /\ f \in DOMAIN prUploads /\ prUploads[f].pc = "validated"
    /\ prUploads' = [prUploads EXCEPT
                        ![f].pc = "uploading",
                        ![f].settled = [i \in 1..Len(Dispatched(prUploads[f].files))
                                           |-> "pending"]]
    /\ ProcessJoin
    /\ UNCHANGED <<prFields, prOptions, ecVars, vfVars, upVars, mfVars, pfVars,
                   dfVars, mwVars, suVars>>

\* provider call k of upload run f is fulfilled; the run returns when it was
\* its last pending call (cloudinary.js 90-92)
FieldProviderFulfil(f, k) ==
    /\ f \in DOMAIN prUploads
    /\ k \in DOMAIN prUploads[f].settled /\ prUploads[f].settled[k] = "pending"
    /\ LET u == prUploads[f]
           settled == [u.settled EXCEPT ![k] = "fulfilled"]
       IN  prUploads' = [prUploads EXCEPT
               ![f].settled = settled,
               ![f].order = Append(@, k),
               ![f].pc = IF u.pc = "uploading"
                            /\ \A j \in DOMAIN settled : settled[j] = "fulfilled"
                         THEN "resolved" ELSE @]
    /\ ProcessJoin
    /\ UNCHANGED <<prFields, prOptions, ecVars, vfVars, upVars, mfVars, pfVars,
                   dfVars, mwVars, suVars>>

\* provider call k of upload run f is rejected, and with it the run
FieldProviderReject(f, k) ==
    /\ f \in DOMAIN prUploads
    /\ k \in DOMAIN prUploads[f].settled /\ prUploads[f].settled[k] = "pending"
    /\ prUploads' = [prUploads EXCEPT
                        ![f].settled[k] = "rejected",
                        ![f].pc = IF @ = "uploading" THEN "rejected" ELSE @]
    /\ ProcessJoin
    /\ UNCHANGED <<prFields, prOptions, ecVars, vfVars, upVars, mfVars, pfVars,
                   dfVars, mwVars, suVars>>

NextProcess ==
    \/ ProcessCall
    \/ \E f \in 1..(MaxFields + 1) : FieldDispatch(f)
    \/ \E f \in 1..(MaxFields + 1), k \in 1..MaxFiles : FieldProviderFulfil(f, k)
    \/ \E f \in 1..(MaxFields + 1), k \in 1..MaxFiles : FieldProviderReject(f, k)

SpecProcess == InitProcess /\ [][NextProcess]_vars

-----------------------------------------------------------------------------
(* ModelFileService.  ModelFileService.js evaluates the names info (line    *)
(* 35), warning (191, 226) and StorageConfig.resolveFolderPath (108) and    *)
(* declares or imports none of them; config.js declares info and warning    *)
(* for itself only and gives StorageConfig no resolveFolderPath.  A free    *)
(* name resolves against the global object and a static method can be given *)
(* to the class by the program that loads it, so mfHost holds the names the *)
(* running program supplies: evaluating a name outside mfHost throws.       *)

\* lines 30-39, once StorageConfig.load has resolved: createStorage may throw;
\* this.storage is assigned (33) before the log call (35) evaluates info; the
\* catch block (36-38) ends in a throw on every path
InitializeStorage(host, createOk) ==
    IF ~ createOk THEN [init |-> "rejected", storage |-> "null"]
    ELSE IF "info" \notin host THEN [init |-> "rejected", storage |-> "service"]
    ELSE [init |-> "fulfilled", storage |-> "service"]

\* faulty variant: _getStorage starts _initializeStorage again while
\* this.storage is null
InitRunsStartedWhenNull(storage) == IF storage = "null" THEN 1 ELSE 0
\* lines 45-48: _getStorage awaits the promise made by the constructor and
\* starts no run of _initializeStorage
InitRunsStarted(storage) == 0

\* the constructor has run (13-22): _initializeStorage was started once and
\* waits for StorageConfig.load (30)
Constructed ==
    /\ mfInit = "loading" /\ mfStorage = "null"
    /\ mfRuns = 1 /\ mfLoads = 1 /\ mfCreates = 0

\* StorageConfig.load resolves (config.js 19-37 returns a configuration on
\* every path) and _initializeStorage runs to its end
Initialize ==
    /\ mfInit = "loading"
    /\ LET r == InitializeStorage(mfHost, mfCreateOk)
       IN  /\ mfInit' = r.init
           /\ mfStorage' = r.storage
    /\ mfCreates' = mfCreates + 1
    /\ UNCHANGED <<mfHost, mfCreateOk, mfFields, mfRuns, mfLoads, mfCalls,
                   ecVars, vfVars, upVars, prVars, pfVars, dfVars, mwVars, suVars>>

-----------------------------------------------------------------------------
(* SpecProcessFiles: one call of ModelFileService.processFiles(req, context) *)
(* on a service whose storage is the StorageService; the storage.upload     *)
(* call it awaits is a run of upload as in SpecUpload.                      *)

\* a field configuration; maxCount 0 stands for a maxCount that is not given
FieldConfig(maxCount, allowedTypes, allowedCategories) ==
    [maxCount |-> maxCount, maxSize |-> Undefined,
     allowedTypes |-> allowedTypes, allowedCategories |-> allowedCategories,
     disallowedTypes |-> <<>>, disallowedCategories |-> <<>>]
FieldConfigs ==
    {FieldConfig(1, <<>>, <<>>),
     FieldConfig(2, <<Mime("image", "*")>>, <<>>),
     FieldConfig(0, <<Mime("image", "gif")>>, <<<<"video">>>>),
     FieldConfig(1, <<Mime("*", "*")>>, <<>>)}

\* the value of a field in req.uploadedFiles
RequestValues ==
    {[kind |-> "absent", files |-> <<>>],
     [kind |-> "array", files |-> <<>>],
     [kind |-> "array", files |-> <<ProcessFile1>>],
     [kind |-> "array", files |-> <<ProcessFile1, ProcessFile3>>],
     [kind |-> "single", files |-> <<ProcessFile2>>]}

\* the folder template of the model and the context of the request
FolderTemplate == <<"{model}", "/", "{id}">>
FolderContext == [k \in {"{model}", "{id}"} |->
                     IF k = "{model}" THEN "product" ELSE "123"]

\* StorageConfig.resolveFolderPath where the running program supplies it:
\* every placeholder of the template that the context names is replaced by
\* its value
ResolveFolderPath(template, context) ==
    [i \in 1..Len(template) |->
        IF template[i] \in DOMAIN context THEN context[template[i]] ELSE template[i]]

\* ModelFileService._validateFile (162-172): validateFile with the five
\* constraints of the field
FieldValidate(file, fieldConfig) ==
    validateFile(file, [maxSize |-> fieldConfig.maxSize,
                        allowedTypes |-> fieldConfig.allowedTypes,
                        allowedCategories |-> fieldConfig.allowedCategories,
                        disallowedTypes |-> fieldConfig.disallowedTypes,
                        disallowedCategories |-> fieldConfig.disallowedCategories])

\* lines 127-129: the first file of filesArray that validateFile refuses, 0
\* when there is none
FirstRefused(files, fieldConfig) ==
    LET bad == {i \in 1..Len(files) : FieldValidate(files[i], fieldConfig) # "ok"}
    IN  IF bad = {} THEN 0 ELSE Min(bad)

\* lines 127-129 for a field whose first refused file is at position bad
ValidationOutcome(files, fieldConfig, bad) ==
    IF bad # 0 THEN FieldValidate(files[bad], fieldConfig) ELSE "upload"

\* lines 114-129 for the field at position i: what the loop body does before
\* it reaches storage.upload
FieldCheck(fields, request, i) ==
    IF Skipped(request[i]) THEN "skip"
    ELSE IF fields[i].config.maxCount # 0
               /\ Len(request[i].files) > fields[i].config.maxCount
         THEN "TooManyFiles"
    ELSE ValidationOutcome(request[i].files, fields[i].config,
                           FirstRefused(request[i].files, fields[i].config))

\* the first position from i on whose field is not skipped, 0 when there is
\* none
FirstNotSkipped(fields, request, i) ==
    IF \A j \in i..Len(fields) : FieldCheck(fields, request, j) = "skip" THEN 0
    ELSE Min({j \in i..Len(fields) : FieldCheck(fields, request, j) # "skip"})

\* where the loop stops at position j with outcome c of the checks
LoopStop(j, c) ==
    IF j = 0 THEN [kind |-> "return", field |-> 0, error |-> "none"]
    ELSE IF c = "upload" THEN [kind |-> "upload", field |-> j, error |-> "none"]
    ELSE [kind |-> "throw", field |-> j, error |-> c]

StopAt(fields, request, j) ==
    LoopStop(j, IF j = 0 THEN "none" ELSE FieldCheck(fields, request, j))

\* lines 113-148: the loop over the configured fields, entered at position i,
\* runs until it throws, reaches the storage.upload of a field, or ends
LoopFrom(fields, request, i) ==
    StopAt(fields, request, FirstNotSkipped(fields, request, i))

\* r.url of the result the provider returned for a file uploaded with the
\* given options
Url(options, r) == [folder |-> options.folder, file |-> r.file]

\* lines 151-153
UrlsOf(options, uploadResult, isArray) ==
    IF isArray
    THEN [kind |-> "array",
          urls |-> [j \in 1..Len(uploadResult) |-> Url(options, uploadResult[j])]]
    ELSE [kind |-> "string", url |-> Url(options, uploadResult)]

\* lines 132-146: the options handed to storage.upload for a field
UploadOptions(baseFolder, field) ==
    [folder |-> baseFolder \o <<"/", field.name>>,
     allowedTypes |-> field.config.allowedTypes,
     allowedCategories |-> field.config.allowedCategories,
     maxSize |-> field.config.maxSize]

InitProcessFiles ==
    /\ mfHost \in SUBSET {"info", "resolveFolderPath"}
    /\ mfCreateOk = TRUE
    /\ \E n \in 1..MaxFields :
          \E configs \in [1..n -> FieldConfigs], values \in [1..n -> RequestValues] :
             /\ mfFields = [i \in 1..n |-> [name |-> FieldNames[i], config |-> configs[i]]]
             /\ pfRequest = values
    /\ Constructed
    /\ mfCalls = <<>>
    /\ pfPc = "awaitInit" /\ pfField = 0 /\ pfResults = <<>> /\ pfUploads = <<>>
    /\ pfOutcome = NotCalled
    /\ ecIdle /\ vfIdle /\ upIdle /\ prIdle /\ dfIdle /\ mwIdle /\ suIdle

\* the loop has stopped at `step`: it throws, returns `results`, or calls
\* storage.upload(filesArray, uploadOptions), which starts a run of upload
ProcessFilesStep(step, results) ==
    /\ pfResults' = results
    /\ pfField' = step.field
    /\ IF step.kind = "upload"
       THEN /\ pfPc' = "awaitUpload"
            /\ UNCHANGED pfOutcome
            /\ upFiles' = pfRequest[step.field].files
            /\ upIsArray' = TRUE
            /\ upOptions' = UploadOptions(
                                ResolveFolderPath(FolderTemplate, FolderContext),
                                mfFields[step.field])
            /\ upMaxFileSize' = DefaultMaxFileSize
            /\ upPc' = "start"
            /\ upCalls' = <<>> /\ upSettled' = <<>> /\ upOrder' = <<>>
            /\ upOutcome' = NotCalled
            /\ UNCHANGED upDeletes
       ELSE /\ pfPc' = IF step.kind = "throw" THEN "rejected" ELSE "returned"
            /\ pfOutcome' = IF step.kind = "throw"
                            THEN [kind |-> "error", error |-> step.error]
                            ELSE [kind |-> "value", value |-> results]
            /\ UNCHANGED upVars

\* the loop goes on from position i
ProcessFilesLoop(i, results) ==
    ProcessFilesStep(LoopFrom(mfFields, pfRequest, i), results)

\* line 103 resumes once this._initPromise has settled; lines 104-111, then
\* the loop
ProcessFilesResume ==
    /\ pfPc = "awaitInit" /\ mfInit # "loading"
    /\ IF mfInit = "rejected"
       THEN /\ pfPc' = "rejected"
            /\ pfOutcome' = [kind |-> "error", error |-> "InitFailed"]
            /\ UNCHANGED <<pfField, pfResults, upVars>>
       ELSE IF "resolveFolderPath" \notin mfHost
       THEN /\ pfPc' = "rejected"
            /\ pfOutcome' = [kind |-> "error", error |-> "TypeError"]
            /\ UNCHANGED <<pfField, pfResults, upVars>>
       ELSE ProcessFilesLoop(1, pfResults)
    /\ UNCHANGED <<pfRequest, pfUploads, ecVars, vfVars, prVars, mfVars, dfVars,
                   mwVars, suVars>>

\* line 148 resumes once the promise of storage.upload has settled: a
\* rejection rejects processFiles; otherwise lines 151-153 store the URLs
\* and the loop goes on with the next field
ProcessFilesAfterUpload ==
    /\ pfPc = "awaitUpload" /\ upPc \in {"resolved", "rejected"}
    /\ pfUploads' = Append(pfUploads, [field |-> mfFields[pfField].name,
                                       calls |-> upCalls])
    /\ IF upPc = "rejected"
       THEN /\ pfPc' = "rejected"
            /\ pfOutcome' = upOutcome
            /\ UNCHANGED <<pfField, pfResults, upVars>>
       ELSE ProcessFilesLoop(
                pfField + 1,
                [n \in DOMAIN pfResults \cup {mfFields[pfField].name} |->
                    IF n = mfFields[pfField].name
                    THEN UrlsOf(upOptions, upOutcome.value, upIsArray)
                    ELSE pfResults[n]])
    /\ UNCHANGED <<pfRequest, ecVars, vfVars, prVars, mfVars, dfVars, mwVars, suVars>>

NextProcessFiles ==
    \/ Initialize
    \/ ProcessFilesResume
    \/ ProcessFilesAfterUpload
    \/ UploadValidate
    \/ UploadDispatch
    \/ \E k \in 1..(MaxFiles + 1) : ProviderFulfil(k)
    \/ \E k \in 1..(MaxFiles + 1) : ProviderReject(k)

SpecProcessFiles == InitProcessFiles /\ [][NextProcessFiles]_vars

-----------------------------------------------------------------------------
(* SpecDelete and SpecCleanup: one call of ModelFileService.deleteFiles      *)
(* (record) or of cleanupReplacedFiles(existingRecord, newFileUrls).  A      *)
(* value of a record is absent (undefined, null or ''), a URL string, or an  *)
(* array whose elements are URLs or empty strings.                          *)

NoUrl == ""
\* a key of the records that is not a configured field
OtherKey == "legacyFile"

UrlValues ==
    {[kind |-> "absent", urls |-> <<>>],
     [kind |-> "string", urls |-> <<"url1">>],
     [kind |-> "array", urls |-> <<"url1", "url2">>],
     [kind |-> "array", urls |-> <<NoUrl, "url2">>]}
NewUrlValues ==
    {[kind |-> "absent", urls |-> <<>>],
     [kind |-> "string", urls |-> <<"url2">>],
     [kind |-> "array", urls |-> <<"url2", "url3">>],
     [kind |-> "array", urls |-> <<>>]}

\* the records with a value for every configured field, and a URL under
\* OtherKey
Records(n, values) ==
    {[k \in {FieldNames[i] : i \in 1..n} \cup {OtherKey} |->
         IF k = OtherKey THEN [kind |-> "string", urls |-> <<"url1">>] ELSE f[k]] :
     f \in [{FieldNames[i] : i \in 1..n} -> values]}

\* lines 183-188: urlList.filter(Boolean) of a field, nothing when !urls
UrlsToDelete(record, fieldName) ==
    IF record[fieldName].kind = "absent" THEN <<>>
    ELSE SelectSeq(record[fieldName].urls, LAMBDA url : url # NoUrl)

\* faulty variant: a field without a new value is read as a field whose new
\* list is empty
UrlsReplacedNewAbsentAsEmpty(existingRecord, newFileUrls, fieldName) ==
    IF existingRecord[fieldName].kind = "absent" THEN <<>>
    ELSE SelectSeq(existingRecord[fieldName].urls,
                   LAMBDA url : url # NoUrl /\ url \notin SeqToSet(newFileUrls[fieldName].urls))

\* lines 210-221: existingList.filter(url => url && !newList.includes(url)),
\* nothing when !existingUrls || !newUrls
UrlsReplaced(existingRecord, newFileUrls, fieldName) ==
    IF existingRecord[fieldName].kind = "absent" \/ newFileUrls[fieldName].kind = "absent"
    THEN <<>>
    ELSE SelectSeq(existingRecord[fieldName].urls,
                   LAMBDA url : url # NoUrl /\ url \notin SeqToSet(newFileUrls[fieldName].urls))

\* the storage.delete calls of one field, in call order
DeleteCalls(fieldName, urls) ==
    [j \in 1..Len(urls) |-> [field |-> fieldName, url |-> urls[j], state |-> "pending"]]

\* lines 190-192 and 225-227: the handler given to catch evaluates warning;
\* where that name is not supplied the handler throws and the promise made
\* by catch is rejected
CatchHandler(host) == IF "warning" \in host THEN "caught" ELSE "uncaught"

\* lines 197 and 232: Promise.all over the promises made by catch
DeletesJoined(deletes) ==
    IF \E k \in 1..Len(deletes) : deletes[k].state = "uncaught" THEN "rejected"
    ELSE IF \A k \in 1..Len(deletes) : deletes[k].state \in {"fulfilled", "caught"}
    THEN "resolved"
    ELSE "awaiting"

\* the call goes on once this._initPromise has settled (179, 206): a rejected
\* promise rejects the call; otherwise the loop issues `calls` and the call
\* waits for all of them (197, 232)
DeletesIssued(calls) ==
    /\ dfPc = "awaitInit" /\ mfInit # "loading"
    /\ IF mfInit = "rejected"
       THEN /\ dfPc' = "rejected"
            /\ dfOutcome' = [kind |-> "error", error |-> "InitFailed"]
            /\ UNCHANGED dfDeletes
       ELSE /\ dfDeletes' = calls
            /\ dfPc' = DeletesJoined(calls)
            /\ dfOutcome' = IF calls = <<>> THEN [kind |-> "value"] ELSE NotCalled
    /\ UNCHANGED <<dfRecord, dfNew, ecVars, vfVars, upVars, prVars, mfVars, pfVars,
                   mwVars, suVars>>

\* deleteFiles, lines 179-197
DeleteFilesResume ==
    DeletesIssued(Flatten([i \in 1..Len(mfFields) |->
        DeleteCalls(mfFields[i].name, UrlsToDelete(dfRecord, mfFields[i].name))]))

\* cleanupReplacedFiles, lines 206-232
CleanupResume ==
    DeletesIssued(Flatten([i \in 1..Len(mfFields) |->
        DeleteCalls(mfFields[i].name,
                    UrlsReplaced(dfRecord, dfNew, mfFields[i].name))]))

\* the promise of Promise.all settles, and with it the call
DeletesSettle ==
    IF dfPc = "awaiting"
    THEN /\ dfPc' = DeletesJoined(dfDeletes')
         /\ dfOutcome' = IF dfPc' = "resolved" THEN [kind |-> "value"]
                         ELSE IF dfPc' = "rejected"
                         THEN [kind |-> "error", error |-> "ReferenceError"]
                         ELSE NotCalled
    ELSE UNCHANGED <<dfPc, dfOutcome>>

\* storage.delete call k is fulfilled (cloudinary.js 100-102 returns the
\* promise of provider.delete)
DeleteFulfil(k) ==
    /\ k \in DOMAIN dfDeletes /\ dfDeletes[k].state = "pending"
    /\ dfDeletes' = [dfDeletes EXCEPT ![k].state = "fulfilled"]
    /\ DeletesSettle
    /\ UNCHANGED <<dfRecord, dfNew, ecVars, vfVars, upVars, prVars, mfVars, pfVars,
                   mwVars, suVars>>

\* storage.delete call k is rejected and the handler given to catch runs
DeleteReject(k) ==
    /\ k \in DOMAIN dfDeletes /\ dfDeletes[k].state = "pending"
    /\ dfDeletes' = [dfDeletes EXCEPT ![k].state = CatchHandler(mfHost)]
    /\ DeletesSettle
    /\ UNCHANGED <<dfRecord, dfNew, ecVars, vfVars, upVars, prVars, mfVars, pfVars,
                   mwVars, suVars>>

\* most storage.delete calls one call can issue
MaxDeletes == 2 * (MaxFields + 1)

InitDelete ==
    /\ mfHost \in SUBSET {"info", "warning"}
    /\ mfCreateOk = TRUE
    /\ \E n \in 1..MaxFields :
          /\ mfFields = [i \in 1..n |-> [name |-> FieldNames[i],
                                         config |-> FieldConfig(1, <<>>, <<>>)]]
          /\ dfRecord \in Records(n, UrlValues)
    /\ dfNew = <<>>
    /\ Constructed
    /\ mfCalls = <<>>
    /\ dfPc = "awaitInit" /\ dfDeletes = <<>> /\ dfOutcome = NotCalled
    /\ ecIdle /\ vfIdle /\ upIdle /\ prIdle /\ pfIdle /\ mwIdle /\ suIdle

NextDelete ==
    \/ Initialize
    \/ DeleteFilesResume
    \/ \E k \in 1..MaxDeletes : DeleteFulfil(k)
    \/ \E k \in 1..MaxDeletes : DeleteReject(k)

SpecDelete == InitDelete /\ [][NextDelete]_vars

InitCleanup ==
    /\ mfHost \in SUBSET {"info", "warning"}
    /\ mfCreateOk = TRUE
    /\ \E n \in 1..MaxFields :
          /\ mfFields = [i \in 1..n |-> [name |-> FieldNames[i],
                                         config |-> FieldConfig(1, <<>>, <<>>)]]
          /\ dfRecord \in Records(n, UrlValues)
          /\ dfNew \in Records(n, NewUrlValues)
    /\ Constructed
    /\ mfCalls = <<>>
    /\ dfPc = "awaitInit" /\ dfDeletes = <<>> /\ dfOutcome = NotCalled
    /\ ecIdle /\ vfIdle /\ upIdle /\ prIdle /\ pfIdle /\ mwIdle /\ suIdle

NextCleanup ==
    \/ Initialize
    \/ CleanupResume
    \/ \E k \in 1..MaxDeletes : DeleteFulfil(k)
    \/ \E k \in 1..MaxDeletes : DeleteReject(k)

SpecCleanup == InitCleanup /\ [][NextCleanup]_vars

-----------------------------------------------------------------------------
(* SpecInit: the initialization of one ModelFileService instance and the     *)
(* calls of processFiles, deleteFiles and cleanupReplacedFiles made on it,   *)
(* each followed up to the point where it holds the storage or fails.        *)

MaxCalls == 2           \* most calls made on the instance

CallKinds == {"processFiles", "deleteFiles", "cleanupReplacedFiles"}

InitInit ==
    /\ mfHost \in SUBSET {"info"}
    /\ mfCreateOk \in BOOLEAN
    /\ mfFields = <<>>
    /\ Constructed
    /\ mfCalls = <<>>
    /\ ecIdle /\ vfIdle /\ upIdle /\ prIdle /\ pfIdle /\ dfIdle /\ mwIdle /\ suIdle

\* a method is called: its first statement is `await this._getStorage()`
\* (103, 179, 206); a run of _initializeStorage that is started calls
\* StorageConfig.load at once (30)
Call(kind) ==
    /\ Len(mfCalls) < MaxCalls
    /\ mfCalls' = Append(mfCalls, [kind |-> kind, pc |-> "awaitInit",
                                   early |-> mfInit = "loading"])
    /\ mfRuns' = mfRuns + InitRunsStarted(mfStorage)
    /\ mfLoads' = mfLoads + InitRunsStarted(mfStorage)
    /\ UNCHANGED <<mfHost, mfCreateOk, mfFields, mfInit, mfStorage, mfCreates,
                   ecVars, vfVars, upVars, prVars, pfVars, dfVars, mwVars, suVars>>

\* lines 46-47: the call goes on once this._initPromise has settled; it gets
\* this.storage when the promise was fulfilled and fails when it was rejected
CallResume(c) ==
    /\ c \in DOMAIN mfCalls /\ mfCalls[c].pc = "awaitInit"
    /\ mfInit # "loading"
    /\ mfCalls' = [mfCalls EXCEPT ![c].pc = IF mfInit = "fulfilled"
                                            THEN "hasStorage" ELSE "rejected"]
    /\ UNCHANGED <<mfHost, mfCreateOk, mfFields, mfInit, mfStorage, mfRuns, mfLoads,
                   mfCreates, ecVars, vfVars, upVars, prVars, pfVars, dfVars, mwVars, suVars>>

NextInit ==
    \/ Initialize
    \/ \E kind \in CallKinds : Call(kind)
    \/ \E c \in 1..MaxCalls : CallResume(c)

SpecInit == InitInit /\ [][NextInit]_vars

-----------------------------------------------------------------------------
(* SpecMiddleware: one call of ModelFileService.getUploadMiddleware().  The  *)
(* statement at line 86 awaits the import of middleware.js in a method that  *)
(* is not declared async; the model reads it as the import it names.         *)

MiddlewareMaxCounts == {0, 1, 2, 10}
MiddlewareConfigs ==
    {FieldConfig(m, at, ac) :
        m \in MiddlewareMaxCounts,
        at \in {<<>>, <<Mime("image", "*")>>},
        ac \in {<<>>, <<<<"image">>>>}}

\* middleware.js 11-12: the defaults of maxFileSize and maxFiles
DefaultMaxFiles == 10

\* lines 74-93: the options handed to createUploadMiddleware.  perField holds
\* the properties of the options object that are named after a field and
\* carry a maxCount: getUploadMiddleware sets none
MiddlewareOptions(fields) ==
    [fields |-> [i \in 1..Len(fields) |-> fields[i].name],
     allowedTypes |->
         AddEach(<<>>, Flatten([i \in 1..Len(fields) |-> fields[i].config.allowedTypes])),
     allowedCategories |->
         AddEach(<<>>, Flatten([i \in 1..Len(fields) |-> fields[i].config.allowedCategories])),
     maxFileSize |-> DefaultMaxFileSize,
     perField |-> <<>>]

\* middleware.js 28: options[field]?.maxCount || 1
PartMaxCount(options, field) ==
    IF field \in DOMAIN options.perField /\ options.perField[field] # 0
    THEN options.perField[field]
    ELSE 1

\* createUploadMiddleware, middleware.js 8-53
createUploadMiddleware(options) ==
    IF Len(options.fields) > 0
    THEN [kind |-> "fields",
          parts |-> [i \in 1..Len(options.fields) |->
                        [name |-> options.fields[i],
                         maxCount |-> PartMaxCount(options, options.fields[i])]],
          fileSize |-> options.maxFileSize,
          files |-> DefaultMaxFiles]
    ELSE [kind |-> "single", parts |-> <<[name |-> "file", maxCount |-> 1]>>,
          fileSize |-> options.maxFileSize, files |-> DefaultMaxFiles]

\* getUploadMiddleware, lines 66-94
getUploadMiddleware(fields) ==
    IF Len(fields) = 0
    THEN [kind |-> "empty", parts |-> <<>>, fileSize |-> 0, files |-> 0]
    ELSE createUploadMiddleware(MiddlewareOptions(fields))

InitMiddleware ==
    /\ mfHost = {}
    /\ mfCreateOk = TRUE
    /\ \E n \in 0..MaxFields :
          \E configs \in [1..n -> MiddlewareConfigs] :
             mfFields = [i \in 1..n |-> [name |-> FieldNames[i], config |-> configs[i]]]
    /\ Constructed
    /\ mfCalls = <<>>
    /\ mwResult = [kind |-> NotCalled]
    /\ ecIdle /\ vfIdle /\ upIdle /\ prIdle /\ pfIdle /\ dfIdle /\ suIdle

GetUploadMiddlewareCall ==
    /\ mwResult.kind = NotCalled
    /\ mwResult' = getUploadMiddleware(mfFields)
    /\ UNCHANGED <<ecVars, vfVars, upVars, prVars, mfVars, pfVars, dfVars, suVars>>

NextMiddleware == GetUploadMiddlewareCall

SpecMiddleware == InitMiddleware /\ [][NextMiddleware]_vars

-----------------------------------------------------------------------------
(* SpecUpdate: one call of update(id, data, req) on the service made by      *)
(* createStorageIntegratedService (storage-integrated-service.js 38-55).     *)
(* fileService is the ModelFileService made at line 11; its processFiles     *)
(* and cleanupReplacedFiles run as in SpecProcessFiles and SpecCleanup.  The *)
(* base service holds one record under id; getById reads it and a           *)
(* successful baseService.update writes the merged data over it.             *)

\* { ...a, ...b }
Merge(a, b) ==
    [k \in DOMAIN a \cup DOMAIN b |-> IF k \in DOMAIN b THEN b[k] ELSE a[k]]

\* the URL strings the provider returns (cloudinary.js 23-28:
\* `${folder}/${Date.now()}-${originalname}` under the provider's address),
\* per field folder and file; none is a URL of an earlier upload
UploadedUrls ==
    [n \in SeqToSet(FieldNames) |->
        IF n = "mainImage" THEN <<"mainImage/gif", "mainImage/mp4", "mainImage/png">>
        ELSE IF n = "galleryImages"
        THEN <<"galleryImages/gif", "galleryImages/mp4", "galleryImages/png">>
        ELSE <<"documents/gif", "documents/mp4", "documents/png">>]

\* the URL string of the upload result of `file` in the folder of a field
Href(fieldName, file) ==
    UploadedUrls[fieldName][
        IF file = ProcessFile1 THEN 1 ELSE IF file = ProcessFile2 THEN 2 ELSE 3]

\* the files the request holds for the field of the given name
FilesOf(fields, request, fieldName) ==
    request[CHOOSE i \in 1..Len(fields) : fields[i].name = fieldName].files

\* the object processFiles returned, its URLs as strings: the result at
\* position j of a field is that of the j-th file of the field
FileUrls(results, fields, request) ==
    [n \in DOMAIN results |->
        [kind |-> results[n].kind,
         urls |-> [j \in 1..Len(results[n].urls) |->
                      Href(n, FilesOf(fields, request, n)[results[n].urls[j].file])]]]

\* newFileUrls[fieldName] for every configured field: undefined where
\* fileUrls has no such key
NewFileUrls(fileUrls, fields) ==
    [n \in {fields[i].name : i \in 1..Len(fields)} |->
        IF n \in DOMAIN fileUrls THEN fileUrls[n]
        ELSE [kind |-> "absent", urls |-> <<>>]]

\* the field configuration of the model and the values of a field in
\* req.uploadedFiles
UpdateConfig == FieldConfig(2, <<Mime("image", "*")>>, <<>>)
UpdateRequestValues ==
    {[kind |-> "absent", files |-> <<>>],
     [kind |-> "array", files |-> <<ProcessFile1>>],
     [kind |-> "array", files |-> <<ProcessFile1, ProcessFile3>>],
     [kind |-> "single", files |-> <<ProcessFile2>>]}

\* the values of a configured field in the record the base service holds
UpdateUrlValues ==
    {[kind |-> "absent", urls |-> <<>>],
     [kind |-> "string", urls |-> <<"url1">>],
     [kind |-> "array", urls |-> <<"url1", "url2">>]}

\* data: no property, or a new value for a key that is not a configured field
UpdateData == {<<>>, [k \in {OtherKey} |-> [kind |-> "string", urls |-> <<"url3">>]]}

InitUpdate ==
    /\ mfHost \in SUBSET {"info", "warning", "resolveFolderPath"}
    /\ mfCreateOk = TRUE
    /\ \E n \in 1..MaxFields :
          /\ mfFields = [i \in 1..n |-> [name |-> FieldNames[i], config |-> UpdateConfig]]
          /\ suPersisted \in Records(n, UpdateUrlValues)
          /\ suHasReq \in BOOLEAN
          /\ IF suHasReq THEN pfRequest \in [1..n -> UpdateRequestValues]
             ELSE pfRequest = <<>>
    /\ suData \in UpdateData
    /\ Constructed
    /\ mfCalls = <<>>
    /\ suExisting = <<>> /\ suFileUrls = <<>> /\ suPc = "getById"
    /\ suOutcome = NotCalled
    /\ pfPc = "idle" /\ pfField = 0 /\ pfResults = <<>> /\ pfUploads = <<>>
    /\ pfOutcome = NotCalled
    /\ ecIdle /\ vfIdle /\ upIdle /\ prIdle /\ dfIdle /\ mwIdle

\* line 40 resumes with the record; with req, line 45 calls processFiles,
\* which runs up to its first await (ModelFileService.js 103); without req
\* lines 52-54 call baseService.update
GetByIdFulfil ==
    /\ suPc = "getById"
    /\ suExisting' = suPersisted
    /\ IF suHasReq
       THEN suPc' = "processFiles" /\ pfPc' = "awaitInit"
       ELSE suPc' = "baseUpdate" /\ UNCHANGED pfPc
    /\ UNCHANGED <<suPersisted, suData, suHasReq, suFileUrls, suOutcome,
                   pfRequest, pfField, pfResults, pfUploads, pfOutcome,
                   ecVars, vfVars, upVars, prVars, mfVars, dfVars, mwVars>>

\* the promise of baseService.getById is rejected and update with it
GetByIdReject ==
    /\ suPc = "getById"
    /\ suPc' = "rejected"
    /\ suOutcome' = [kind |-> "error", error |-> "GetByIdFailed"]
    /\ UNCHANGED <<suPersisted, suData, suHasReq, suExisting, suFileUrls,
                   ecVars, vfVars, upVars, prVars, mfVars, pfVars, dfVars, mwVars>>

\* line 45 resumes once processFiles has settled: a rejection rejects
\* update; otherwise line 48 calls cleanupReplacedFiles(existing, fileUrls),
\* which runs up to its first await (ModelFileService.js 206)
UpdateAfterProcessFiles ==
    /\ suPc = "processFiles" /\ pfPc \in {"returned", "rejected"}
    /\ IF pfPc = "rejected"
       THEN /\ suPc' = "rejected"
            /\ suOutcome' = pfOutcome
            /\ UNCHANGED <<suFileUrls, dfVars>>
       ELSE /\ suPc' = "cleanup"
            /\ suFileUrls' = FileUrls(pfOutcome.value, mfFields, pfRequest)
            /\ dfRecord' = suExisting
            /\ dfNew' = NewFileUrls(suFileUrls', mfFields)
            /\ dfPc' = "awaitInit"
            /\ UNCHANGED <<suOutcome, dfDeletes, dfOutcome>>
    /\ UNCHANGED <<suPersisted, suData, suHasReq, suExisting,
                   ecVars, vfVars, upVars, prVars, mfVars, pfVars, mwVars>>

\* line 48 resumes once cleanupReplacedFiles has settled: a rejection
\* rejects update; otherwise lines 52-54 call baseService.update
UpdateAfterCleanup ==
    /\ suPc = "cleanup" /\ dfPc \in {"resolved", "rejected"}
    /\ IF dfPc = "rejected"
       THEN suPc' = "rejected" /\ suOutcome' = dfOutcome
       ELSE suPc' = "baseUpdate" /\ UNCHANGED suOutcome
    /\ UNCHANGED <<suPersisted, suData, suHasReq, suExisting, suFileUrls,
                   ecVars, vfVars, upVars, prVars, mfVars, pfVars, dfVars, mwVars>>

\* line 54: baseService.update(id, mergedData) succeeds and the record holds
\* the merged data
BaseUpdateFulfil ==
    /\ suPc = "baseUpdate"
    /\ suPersisted' = Merge(suPersisted, Merge(suData, suFileUrls))
    /\ suPc' = "resolved"
    /\ suOutcome' = [kind |-> "value"]
    /\ UNCHANGED <<suData, suHasReq, suExisting, suFileUrls,
                   ecVars, vfVars, upVars, prVars, mfVars, pfVars, dfVars, mwVars>>

\* line 54: baseService.update fails; the record is as it was
BaseUpdateReject ==
    /\ suPc = "baseUpdate"
    /\ suPc' = "rejected"
    /\ suOutcome' = [kind |-> "error", error |-> "UpdateFailed"]
    /\ UNCHANGED <<suPersisted, suData, suHasReq, suExisting, suFileUrls,
                   ecVars, vfVars, upVars, prVars, mfVars, pfVars, dfVars, mwVars>>

NextUpdate ==
    \/ Initialize
    \/ GetByIdFulfil
    \/ GetByIdReject
    \/ ProcessFilesResume
    \/ ProcessFilesAfterUpload
    \/ UploadValidate
    \/ UploadDispatch
    \/ \E k \in 1..(MaxFiles + 1) : ProviderFulfil(k)
    \/ \E k \in 1..(MaxFiles + 1) : ProviderReject(k)
    \/ UpdateAfterProcessFiles
    \/ CleanupResume
    \/ \E k \in 1..MaxDeletes : DeleteFulfil(k)
    \/ \E k \in 1..MaxDeletes : DeleteReject(k)
    \/ UpdateAfterCleanup
    \/ BaseUpdateFulfil
    \/ BaseUpdateReject

SpecUpdate == InitUpdate /\ [][NextUpdate]_vars

-----------------------------------------------------------------------------
(* Vocabulary of the properties *)

\* every MIME type of every category of the table
KnownMimeTypes ==
    UNION {SeqToSet(MIME_CATEGORIES[i].types) : i \in 1..Len(MIME_CATEGORIES)}

NoDuplicates(s) == \A i, j \in 1..Len(s) : s[i] = s[j] => i = j

\* an entry of the form 'prefix/*', and its prefix
IsWildcard(entry) == EndsWith(entry, <<"/", "*">>)
WildcardPrefix(entry) == SubSeq(entry, 1, Len(entry) - 2)

\* the matching rule of the validator: exact match, '*/*' matches everything,
\* 'prefix/*' matches every type that starts with 'prefix/'
Matches(mimetype, entry) ==
    \/ entry = mimetype
    \/ entry = <<"*", "/", "*">>
    \/ IsWildcard(entry) /\ StartsWith(mimetype, WildcardPrefix(entry) \o <<"/">>)

MatchesAny(mimetype, entries) ==
    \E i \in 1..Len(entries) : Matches(mimetype, entries[i])

\* an entry that is neither '*', nor a category name, nor a wildcard pattern
IsLiteral(entry) ==
    entry # <<"*">> /\ entry \notin CategoryNames /\ ~ IsWildcard(entry)

\* what one entry of a category list stands for, classified in priority order
EntryExpansion(entry) ==
    IF entry = <<"*">> THEN KnownMimeTypes
    ELSE IF entry \in CategoryNames THEN
        UNION {SeqToSet(MIME_CATEGORIES[i].types) :
                   i \in {j \in 1..Len(MIME_CATEGORIES) :
                              <<MIME_CATEGORIES[j].name>> = entry}}
    ELSE IF IsWildcard(entry) THEN
        {t \in KnownMimeTypes : StartsWith(t, WildcardPrefix(entry) \o <<"/">>)}
    ELSE {entry}

\* the byte value of a human-readable maxSize
ByteValue(maxSize) == CASE maxSize = "1KB" -> 1024

Validated == vfResult # NotCalled
\* the size check of validateFile ended the call
SizeCheckFailed == vfResult \in {"SizeExceeded", ReferenceError}
TypeDisallowedError == {"TypeDisallowed", "CategoryDisallowed"}

-----------------------------------------------------------------------------
(* Properties of validateFile, under SpecValidate *)

\* C1: disallow wins over allow.  A file that gets past the size check and
\* whose MIME type matches an entry of disallowedTypes is rejected by the
\* disallowed-types check, also when allowedTypes or the expansion of
\* allowedCategories matches it.
C1_DisallowWins ==
    (Validated /\ ~ SizeCheckFailed
        /\ MatchesAny(vfFile.mimetype, vfCons.disallowedTypes))
    => vfResult = "TypeDisallowed"

C1_Witness ==
    /\ vfOp = "validate"
    /\ vfFile.mimetype = Mime("image", "gif")
    /\ vfCons.disallowedTypes = <<Mime("image", "gif")>>
    /\ vfCons.allowedCategories = <<<<"image">>>>
    /\ vfCons.allowedTypes = <<Mime("image", "*")>>
    /\ vfResult = "TypeDisallowed"

\* C2: a file that gets past the size check and whose MIME type is a member
\* of the expansion of a non-empty disallowedCategories is rejected as
\* disallowed, whatever the other fields of the constraint set are.
C2_DisallowedCategoriesReject ==
    (Validated /\ ~ SizeCheckFailed
        /\ Len(vfCons.disallowedCategories) > 0
        /\ vfFile.mimetype \in SeqToSet(expandCategories(vfCons.disallowedCategories)))
    => vfResult \in TypeDisallowedError

\* C3: the size check comes first and wins.  With maxSize given, a file larger
\* than the byte value of maxSize is rejected with the size-exceeded error
\* whatever the type constraints are; without maxSize no file is rejected for
\* its size.
C3_SizeCheckWins ==
    Validated =>
        /\ (vfCons.maxSize # Undefined /\ vfFile.size > ByteValue(vfCons.maxSize))
               => vfResult = "SizeExceeded"
        /\ vfCons.maxSize = Undefined => ~ SizeCheckFailed

\* C4: the allowed-types check.  With A the explicit allowedTypes together
\* with the expansion of allowedCategories, a file that gets past the size
\* check and both disallow checks passes iff A is empty or its MIME type
\* matches an entry of A; otherwise it fails as not allowed.
C4_AllowedTypesCheck ==
    (Validated /\ ~ SizeCheckFailed
        /\ ~ MatchesAny(vfFile.mimetype, vfCons.disallowedTypes)
        /\ vfFile.mimetype \notin SeqToSet(expandCategories(vfCons.disallowedCategories)))
    => LET A == vfCons.allowedTypes \o expandCategories(vfCons.allowedCategories)
       IN  IF A = <<>> \/ MatchesAny(vfFile.mimetype, A)
           THEN vfResult = "ok"
           ELSE vfResult = "TypeNotAllowed"

C4_Witness ==
    /\ vfOp = "validate"
    /\ vfFile.mimetype = Mime("video", "mp4")
    /\ vfCons.allowedTypes = <<Mime("image", "*")>>
    /\ vfCons.allowedCategories = <<<<"image">>>>
    /\ vfCons.disallowedTypes = <<Mime("image", "gif")>>
    /\ vfResult = "TypeNotAllowed"

\* C5: validateFile is monotonic in disallowedTypes.  When a file fails under
\* a constraint set, it still fails after one more entry is added to
\* disallowedTypes.
C5_MonotonicInDisallowedTypes ==
    (vfOp = "addDisallowedType" /\ vfPrev # "ok") => vfResult # "ok"

C5_Witness ==
    /\ vfOp = "addDisallowedType"
    /\ vfPrev = "TypeNotAllowed"
    /\ vfResult = "TypeNotAllowed"

\* the constraint set before the last entry of allowedTypes was added
BeforeAddAllowed == [vfCons EXCEPT !.allowedTypes = SubSeq(@, 1, Len(@) - 1)]

\* C6 as stated: when a file passes under a constraint set, it still passes
\* after one more entry is added to allowedTypes, also when allowedTypes was
\* empty before.
C6_MonotonicInAllowedTypes ==
    (vfOp = "addAllowedType" /\ vfPrev = "ok") => vfResult = "ok"

\* C6 amended: provided the combined allow-list (allowedTypes together with
\* the expansion of allowedCategories) was not empty before, a file that
\* passes still passes after one more entry is added to allowedTypes; and the
\* only failure an added allowedTypes entry turns into a pass is the
\* not-allowed failure.
C6_MonotonicWhenAllowListNonEmpty ==
    vfOp = "addAllowedType" =>
        /\ (vfPrev = "ok" /\ AllowedMimeTypes(BeforeAddAllowed) # <<>>)
               => vfResult = "ok"
        /\ (vfPrev # "ok" /\ vfResult = "ok") => vfPrev = "TypeNotAllowed"

C6_Witness ==
    /\ vfOp = "addAllowedType"
    /\ vfPrev = "ok"
    /\ vfCons.allowedCategories = <<<<"image">>>>
    /\ vfCons.allowedTypes = <<Mime("image", "gif")>>
    /\ vfFile.mimetype = Mime("image", "png")
    /\ vfResult = "ok"

-----------------------------------------------------------------------------
(* Properties of expandCategories, under SpecExpand *)

Expanded == ecResult # NotCalled

\* C7 as stated: for a list that contains '*', the result is exactly the
\* MIME types of all categories, nothing extra, without duplicates.
C7_StarIsExactlyAllKnown ==
    (Expanded /\ <<"*">> \in SeqToSet(ecInput))
    => SeqToSet(ecResult) = KnownMimeTypes /\ NoDuplicates(ecResult)

\* C7 amended: for a list that contains '*', the result has no duplicates and
\* holds exactly the MIME types of all categories together with the literal
\* entries of the list (those that are neither '*', nor a category name, nor a
\* wildcard pattern), which are inserted verbatim.
C7_StarIsAllKnownPlusLiterals ==
    (Expanded /\ <<"*">> \in SeqToSet(ecInput))
    => /\ NoDuplicates(ecResult)
       /\ SeqToSet(ecResult) =
              KnownMimeTypes \cup {e \in SeqToSet(ecInput) : IsLiteral(e)}

C7_Witness ==
    /\ Expanded
    /\ ecInput = <<<<"*">>, Mime("foo", "png")>>
    /\ Len(ecResult) = Cardinality(KnownMimeTypes) + 1

\* C8: an entry 'prefix/*' expands to exactly the MIME types of the table that
\* start with 'prefix/' (none for '*/*'), and every entry is classified in
\* priority order: '*', then category name, then wildcard pattern, then a
\* literal inserted verbatim.  The result is the union of what its entries
\* stand for.
C8_EntriesClassifiedInOrder ==
    Expanded =>
        /\ SeqToSet(ecResult) = UNION {EntryExpansion(ecInput[i]) : i \in 1..Len(ecInput)}
        /\ (Len(ecInput) = 1 /\ IsWildcard(ecInput[1])) =>
               SeqToSet(ecResult) =
                   {t \in KnownMimeTypes :
                        StartsWith(t, WildcardPrefix(ecInput[1]) \o <<"/">>)}

C8_Witness ==
    /\ Expanded
    /\ ecInput = <<Mime("text", "*")>>
    /\ Mime("text", "csv") \in SeqToSet(ecResult)
    /\ Mime("text", "css") \in SeqToSet(ecResult)

\* C9: the result of expandCategories has no duplicate and no category name;
\* each element is a MIME type of the table or a literal entry of the input.
C9_ExpansionInvariant ==
    Expanded =>
        /\ NoDuplicates(ecResult)
        /\ SeqToSet(ecResult) \cap CategoryNames = {}
        /\ \A x \in SeqToSet(ecResult) :
              x \in KnownMimeTypes \/ (x \in SeqToSet(ecInput) /\ IsLiteral(x))

C9_Witness ==
    /\ Expanded
    /\ ecInput = <<<<"image">>, Mime("image", "*")>>
    /\ Len(ecResult) = Len(CategoryTypes(<<"image">>))

-----------------------------------------------------------------------------
(* Properties of StorageService.upload, under SpecUpload *)

\* a file the service must refuse: larger than the configured maximum, or of
\* a MIME type that matches no entry of a non-empty options.allowedTypes
MustBeRefused(file) ==
    \/ file.size > upMaxFileSize
    \/ Len(upOptions.allowedTypes) > 0
           /\ ~ MatchesAny(file.mimetype, upOptions.allowedTypes)

\* C10: every file is validated before any is dispatched.  When some file of
\* the input must be refused, the call fails with a validation error and
\* provider.upload is called for none of the files.
C10_ValidateBeforeDispatch ==
    (\E i \in 1..Len(upFiles) : MustBeRefused(upFiles[i])) =>
        /\ upCalls = <<>>
        /\ upPc \in {"start", "rejected"}
        /\ upPc = "rejected" =>
               /\ upOutcome.kind = "error"
               /\ upOutcome.error \in {"FileTooLarge", "InvalidFileType"}

C10_Witness ==
    /\ upPc = "rejected"
    /\ Len(upFiles) = 2
    /\ StorageServiceValidateFile(upFiles[1], upOptions, upMaxFileSize) = "ok"
    /\ MustBeRefused(upFiles[2])
    /\ upCalls = <<>>

\* some provider.upload call of this upload was rejected
SomeUploadRejected == \E k \in DOMAIN upSettled : upSettled[k] = "rejected"

\* C11: the files of one call are dispatched together and nothing is rolled
\* back.  Once the provider has been called at all it has been called for
\* every file of the input; when any of these calls is rejected the call is
\* rejected and returns no result, the upload of every sibling has still been
\* started, and no provider.delete has been issued.
C11_AllOrNothingWithoutRollback ==
    /\ upCalls # <<>> => upCalls = [i \in 1..Len(upFiles) |-> i]
    /\ SomeUploadRejected =>
           /\ upPc = "rejected"
           /\ upOutcome.kind = "error"
           /\ Len(upSettled) = Len(upFiles)
           /\ upDeletes = <<>>

C11_Witness ==
    /\ Len(upFiles) = 2
    /\ upSettled = <<"fulfilled", "rejected">>
    /\ upPc = "rejected"
    /\ upOutcome.kind = "error"
    /\ upDeletes = <<>>

\* C12: the result of a successful upload has the shape of the input.  For an
\* array of n files it is an array of n results whose i-th element is the
\* result of the i-th input file, whatever the order in which the uploads
\* completed; for a single file that was not in an array it is that file's
\* result, not an array.
C12_ResultShapeMirrorsInput ==
    upPc = "resolved" =>
        /\ upOutcome.kind = "value"
        /\ IF upIsArray
           THEN /\ Len(upOutcome.value) = Len(upFiles)
                /\ \A i \in 1..Len(upFiles) :
                      upOutcome.value[i] = ProviderResult(upFiles, i)
           ELSE upOutcome.value = ProviderResult(upFiles, 1)

C12_Witness ==
    /\ upPc = "resolved"
    /\ upIsArray
    /\ Len(upFiles) = 2
    /\ upOrder = <<2, 1>>
    /\ upOutcome.value[1].file = 1
    /\ upOutcome.value[2].file = 2

-----------------------------------------------------------------------------
(* Properties of StorageService.process, under SpecProcess *)

\* the positions in the input of the fields that carry at least one file
NonEmptyFields ==
    {i \in 1..Len(prFields) :
        prFields[i].value.kind = "single" \/ Len(prFields[i].value.files) > 0}
NonEmptyFieldNames == {prFields[i].name : i \in NonEmptyFields}

\* the upload result the field at position i stands for
ExpectedFieldResult(i) ==
    LET files == prFields[i].value.files
    IN  IF prFields[i].value.kind = "array"
        THEN [j \in 1..Len(files) |-> ProviderResult(files, j)]
        ELSE ProviderResult(files, 1)

\* C13: process starts one upload per non-empty field, with the folder
\* '<options.folder>/<fieldName>' or '<fieldName>' when no folder is given,
\* all of them before it waits for any; absent and empty fields are skipped.
\* When the upload of a field fails the call is rejected; when it returns, the
\* result maps exactly the names of the non-empty fields to their upload
\* results.
C13_ProcessFansOutPerField ==
    /\ prPc = "start" => prUploads = <<>>
    /\ prPc # "start" =>
          /\ Len(prUploads) = Cardinality(NonEmptyFields)
          /\ \A f \in 1..Len(prUploads) : prUploads[f].field \in NonEmptyFieldNames
          /\ \A i \in NonEmptyFields :
                \E f \in 1..Len(prUploads) :
                   /\ prUploads[f].field = prFields[i].name
                   /\ prUploads[f].files = prFields[i].value.files
                   /\ prUploads[f].folder =
                         IF prOptions.folder = Undefined
                         THEN <<prFields[i].name>>
                         ELSE <<prOptions.folder, "/", prFields[i].name>>
    /\ (\E f \in 1..Len(prUploads) : prUploads[f].pc = "rejected") =>
          prPc = "rejected" /\ prOutcome.kind = "error"
    /\ prPc = "rejected" => \E f \in 1..Len(prUploads) : prUploads[f].pc = "rejected"
    /\ prPc = "resolved" =>
          /\ prOutcome.kind = "value"
          /\ DOMAIN prOutcome.value = NonEmptyFieldNames
          /\ \A i \in NonEmptyFields :
                prOutcome.value[prFields[i].name] = ExpectedFieldResult(i)

C13_Witness ==
    /\ prPc = "resolved"
    /\ Len(prFields) = 2
    /\ prFields[1].value = [kind |-> "array", files |-> <<>>]
    /\ Len(prFields[2].value.files) = 2
    /\ prOptions.folder = "products"
    /\ prUploads[1].folder = <<"products", "/", "galleryImages">>
    /\ DOMAIN prOutcome.value = {"galleryImages"}

-----------------------------------------------------------------------------
(* Properties of ModelFileService.processFiles, under SpecProcessFiles *)

\* the positions of the configured fields that carry at least one file in
\* the request
PresentFields ==
    {i \in 1..Len(mfFields) :
        pfRequest[i].kind = "single" \/ Len(pfRequest[i].files) > 0}

\* the field at position i has more files than its maxCount
TooMany(i) ==
    mfFields[i].config.maxCount # 0
        /\ Len(pfRequest[i].files) > mfFields[i].config.maxCount

\* some file of the field at position i fails the field's validation
SomeFileRefused(i) ==
    \E j \in 1..Len(pfRequest[i].files) :
        FieldValidate(pfRequest[i].files[j], mfFields[i].config) # "ok"

\* provider.upload has been called for no file of the request
NoProviderUpload ==
    /\ upCalls = <<>>
    /\ \A k \in 1..Len(pfUploads) : pfUploads[k].calls = <<>>

\* C14: count and validation errors come before any upload.  When some field
\* present in the request has more files than its maxCount, or a file that
\* fails that field's validation, processFiles does not return a result and
\* provider.upload has been called for no field of the request, the fields
\* that come earlier in the configuration included.
C14_ErrorsBeforeAnyUpload ==
    (\E i \in PresentFields : TooMany(i) \/ SomeFileRefused(i)) =>
        /\ pfPc # "returned"
        /\ NoProviderUpload

\* C15: the result of processFiles has exactly one entry per configured field
\* with at least one file in the request; the entry of a field with maxCount
\* 1 that received one file is a single URL string, the entry of any other
\* field is an array of URLs, one per uploaded file in request order.
C15_ResultShape ==
    pfPc = "returned" =>
        /\ DOMAIN pfOutcome.value = {mfFields[i].name : i \in PresentFields}
        /\ \A i \in PresentFields :
              LET entry == pfOutcome.value[mfFields[i].name]
                  n == Len(pfRequest[i].files)
              IN  IF mfFields[i].config.maxCount = 1 /\ n = 1
                  THEN entry.kind = "string" /\ entry.url.file = 1
                  ELSE /\ entry.kind = "array"
                       /\ Len(entry.urls) = n
                       /\ \A j \in 1..n : entry.urls[j].file = j

\* C20: the two validators agree.  When every file of a field passes
\* validateFile against the field's constraints, within maxCount and within
\* the maximum file size of the service, the storage.upload that follows
\* does not refuse a file for its type.
C20_ValidatorsAgree ==
    \A i \in PresentFields :
        (/\ pfField = i
         /\ ~ TooMany(i) /\ ~ SomeFileRefused(i)
         /\ \A j \in 1..Len(pfRequest[i].files) :
               pfRequest[i].files[j].size <= DefaultMaxFileSize)
        => ~ (upPc = "rejected" /\ upOutcome.error = "InvalidFileType")

-----------------------------------------------------------------------------
(* Properties of deleteFiles and cleanupReplacedFiles, under SpecDelete and *)
(* SpecCleanup                                                              *)

\* the call has run its loop or has failed
DeleteCallActed == dfPc # "awaitInit"

\* the URLs for which storage.delete was called on behalf of a field, in
\* call order
DeletedFor(fieldName) ==
    LET calls == SelectSeq(dfDeletes, LAMBDA d : d.field = fieldName)
    IN  [j \in 1..Len(calls) |-> calls[j].url]

\* a value of a record read as a list
AsList(value) == IF value.kind = "absent" THEN <<>> ELSE value.urls

ConfiguredNames == {mfFields[i].name : i \in 1..Len(mfFields)}

\* C16: deleteFiles is best-effort and complete.  Once the call has acted,
\* one storage.delete has been issued for every non-empty URL the record
\* holds in a configured field, whatever became of the other deletes, none
\* for a key that is not configured, and the call is never rejected.
C16_DeleteFilesBestEffort ==
    DeleteCallActed =>
        /\ \A n \in ConfiguredNames :
              DeletedFor(n) = SelectSeq(AsList(dfRecord[n]), LAMBDA url : url # NoUrl)
        /\ \A k \in 1..Len(dfDeletes) : dfDeletes[k].field \in ConfiguredNames
        /\ dfPc # "rejected"

\* C17: cleanupReplacedFiles deletes exactly the replaced files.  Once the
\* call has acted, the URLs deleted for a configured field are those of its
\* existing value that are not in its new value, each value read as a list,
\* in the order of the existing value; no URL of the new value is deleted
\* and the call is never rejected.
C17_CleanupDeletesReplaced ==
    DeleteCallActed =>
        /\ \A n \in ConfiguredNames :
              /\ DeletedFor(n) =
                    SelectSeq(AsList(dfRecord[n]),
                              LAMBDA url : url # NoUrl /\ url \notin SeqToSet(AsList(dfNew[n])))
              /\ SeqToSet(DeletedFor(n)) \cap SeqToSet(AsList(dfNew[n])) = {}
        /\ dfPc # "rejected"

-----------------------------------------------------------------------------
(* Properties of the initialization of ModelFileService, under SpecInit *)

\* C18: one-time initialization.  Whatever calls are made on the instance,
\* before or after the initialization has completed, _initializeStorage runs
\* once, the storage configuration is loaded once and the storage service is
\* constructed once; a call that holds the storage got it after that one
\* initialization had completed.
C18_InitializedOnce ==
    /\ mfRuns = 1 /\ mfLoads = 1
    /\ mfCreates = IF mfInit = "loading" THEN 0 ELSE 1
    /\ \A c \in 1..Len(mfCalls) :
          /\ mfCalls[c].pc # "awaitInit" => mfInit # "loading"
          /\ mfCalls[c].pc = "hasStorage" =>
                mfInit = "fulfilled" /\ mfStorage = "service"

C18_Witness ==
    /\ Len(mfCalls) = 2
    /\ mfCalls[1].early /\ ~ mfCalls[2].early
    /\ mfCalls[1].pc = "hasStorage" /\ mfCalls[2].pc = "hasStorage"
    /\ mfLoads = 1 /\ mfCreates = 1

-----------------------------------------------------------------------------
(* Properties of getUploadMiddleware, under SpecMiddleware *)

\* C19: the multipart configuration follows the field definitions.  With no
\* configured field the middleware list is empty; otherwise there is one
\* named part per configured field, and a part accepts as many files as the
\* maxCount its field is configured with.
C19_PartsFollowFieldDefinitions ==
    mwResult.kind # NotCalled =>
        IF Len(mfFields) = 0
        THEN mwResult.kind = "empty"
        ELSE /\ Len(mwResult.parts) = Len(mfFields)
             /\ \A i \in 1..Len(mfFields) :
                   /\ mwResult.parts[i].name = mfFields[i].name
                   /\ mfFields[i].config.maxCount # 0 =>
                         mwResult.parts[i].maxCount = mfFields[i].config.maxCount

-----------------------------------------------------------------------------
(* Properties of update of the storage-integrated service, under SpecUpdate *)

\* the storage.delete calls issued for a URL that the record held by the
\* base service references in the field the call was issued for
DeletedButReferenced ==
    {k \in 1..Len(dfDeletes) :
        dfDeletes[k].url \in SeqToSet(AsList(suPersisted[dfDeletes[k].field]))}

\* C21: files are deleted only for an update that went through.  Whenever
\* update has failed, because getById, processFiles, cleanupReplacedFiles or
\* baseService.update failed, no delete has been issued for a URL that the
\* record held by the base service still references.
C21_DeletedOnlyWhenUpdateSucceeds ==
    suPc = "rejected" => DeletedButReferenced = {}


-----------------------------------------------------------------------------
(* What cleanupReplacedFiles leaves alone, under SpecCleanup *)

\* the configured fields the loop passes over at line 213: the existing
\* record or newFileUrls holds no value for them
UntouchedNames ==
    {n \in ConfiguredNames : dfRecord[n].kind = "absent" \/ dfNew[n].kind = "absent"}

\* the URLs the existing record holds under a key
UrlsHeld(key) == SeqToSet(AsList(dfRecord[key])) \ {NoUrl}

\* the URLs for which storage.delete was called
DeletedUrls == {dfDeletes[k].url : k \in 1..Len(dfDeletes)}

\* C22 as stated: no delete is issued for any URL held by a configured field
\* without a new or an existing value, nor for any URL held under a key that
\* is not a configured field.
C22_UntouchedUrlsNeverDeleted ==
    \A key \in UntouchedNames \cup {OtherKey} : UrlsHeld(key) \cap DeletedUrls = {}

\* C22, amended: no delete is issued on behalf of a configured field without
\* a new or an existing value, nor on behalf of a key that is not a
\* configured field; every URL deleted is held by a configured field with
\* both values and is not in the new value of that field.  A URL of an
\* untouched field is therefore deleted only where such a field holds the
\* same URL.
C22_UntouchedFieldsIssueNoDelete ==
    /\ \A n \in UntouchedNames : DeletedFor(n) = <<>>
    /\ \A k \in 1..Len(dfDeletes) :
          /\ dfDeletes[k].field \in ConfiguredNames \ UntouchedNames
          /\ dfDeletes[k].url \in UrlsHeld(dfDeletes[k].field)
          /\ dfDeletes[k].url \notin SeqToSet(AsList(dfNew[dfDeletes[k].field]))

\* the call has issued deletes for one field and none for an untouched field
\* that holds URLs
C22_Witness ==
    /\ DeleteCallActed /\ Len(dfDeletes) > 0
    /\ \E n \in UntouchedNames : UrlsHeld(n) # {} /\ DeletedFor(n) = <<>>

=============================================================================
